---- MODULE Spec2Model ----
(***************************************************************************)
(* Model of src/main.py: the /analyze handler and its four mesh metrics.   *)
(*                                                                         *)
(* Numbers.  Floating-point quantities are kept as exact fixed-point       *)
(* integers or exact rationals (numerator, denominator):                   *)
(*   dot products        in millionths                    (Dots)           *)
(*   angles              in hundredths of a degree        (ArcCosDeg)      *)
(*   z coordinates       in thousandths of a length unit  (Bounds)         *)
(*   edge lengths        in whole length units            (EdgeLens)       *)
(* np.arccos followed by np.degrees is the table ArcCosDeg over Dots.      *)
(* An array whose element order does not matter to the code (np.mean,      *)
(* np.std, np.sum) is a bag: a function from element to its multiplicity.  *)
(***************************************************************************)
EXTENDS Integers, Sequences, FiniteSets, Bags, TLC

\* ---------------------------------------------------------------- bounds
BigCount == 19      \* multiplicities of a face normal: 1, BigCount, BigCount + 1
MaxEdges == 2       \* most unique edges of a mesh
MaxTemp == 2        \* most temporary files the file system holds

\* ----------------------------------------------------------------- state
VARIABLES
  pc,           \* where the caller is: a step of analyze, or of a direct use
  request,      \* the AnalysisRequest being served
  fs,           \* the temporary files that exist
  temp_path,    \* analyze's temp_path (0: no file created)
  mesh,         \* the mesh the metrics read
  convergence,  \* the four metric results
  occlusal,
  finish_line,
  undercuts,
  response,     \* what the caller gets: a report or an HTTP 500
  kept          \* an earlier completed call, remembered by the observer

vars == <<pc, request, fs, temp_path, mesh, convergence, occlusal, finish_line,
          undercuts, response, kept>>

\* ------------------------------------------------------- numeric helpers
RECURSIVE SumOver(_, _)
\* sum of f[x] over the elements x of S
SumOver(f, S) ==
  IF S = {} THEN 0
  ELSE LET x == CHOOSE y \in S : TRUE
       IN  f[x] + SumOver(f, S \ {x})

\* int(num / den) of Python for den > 0: truncation toward zero
PyInt(num, den) ==
  IF num >= 0 THEN num \div den ELSE -((-num) \div den)

\* round(num / den) to the nearest integer, ties to even (den > 0, num >= 0)
RoundHalfEven(num, den) ==
  LET q == num \div den
      r == num % den
  IN  IF 2 * r < den THEN q
      ELSE IF 2 * r > den THEN q + 1
      ELSE IF q % 2 = 0 THEN q ELSE q + 1

\* round(x, k) on a non-negative or negative rational num / den
PyRound(num, den) ==
  IF num >= 0 THEN RoundHalfEven(num, den) ELSE -RoundHalfEven(-num, den)

\* a float that is nan, and a float that is a number
NaN == [nan |-> TRUE]
Num(x) == [nan |-> FALSE, v |-> x]

\* an exception raised in place of a return value
Raised(kind) == [raised |-> kind]
IsRaised(r) == "raised" \in DOMAIN r

\* nothing yet: no request, no mesh, no result, no response, no call kept
NoRequest == [none |-> TRUE]
NoMesh == [none |-> TRUE]
NoResult == [none |-> TRUE]
NoResponse == [none |-> TRUE]
NoKept == [none |-> TRUE]
IsResult(r) == "score" \in DOMAIN r

\* -------------------------------------------------------------- the mesh
\* unit face normals (x, y, z) in millionths: 0, 3.96, 6, 8.04, 12, 95.74 and
\* 96 degrees from the vertical, and one whose z exceeds 1 by rounding error
Normals ==
  { <<0, 0, 1000001>>, <<0, 0, 1000000>>, <<69060, 0, 997612>>,
    <<104528, 0, 994522>>, <<139865, 0, 990171>>, <<207912, 0, 978148>>,
    <<994987, 0, -100000>>, <<994522, 0, -104528>> }

\* an axis one metric turns over in place for the metrics that run after it
z_axis_shared ==
  IF pc = "direct" /\ convergence # NoResult THEN <<0, 0, -1>> ELSE <<0, 0, 1>>

\* z_axis = np.array([0, 0, 1])
z_axis == <<0, 0, 1>>

\* np.dot of one normal with an axis, in millionths
Dot(v, axis) == v[1] * axis[1] + v[2] * axis[2] + v[3] * axis[3]

\* np.clip(x, -1, 1)
Clip(d) == IF d > 1000000 THEN 1000000 ELSE IF d < -1000000 THEN -1000000 ELSE d

\* np.degrees(np.arccos(x)) in hundredths of a degree, for clipped x
ArcCosDeg(d) ==
  CASE d = 1000000  -> 0
    [] d = 997612   -> 396
    [] d = 994522   -> 600
    [] d = 990171   -> 804
    [] d = 978148   -> 1200
    [] d = 104528   -> 8400
    [] d = 100000   -> 8426
    [] d = 0        -> 9000
    [] d = -100000  -> 9574
    [] d = -104528  -> 9600
    [] d = -978148  -> 16800
    [] d = -990171  -> 17196
    [] d = -994522  -> 17400
    [] d = -997612  -> 17604
    [] d = -1000000 -> 18000

Counts == {1, BigCount, BigCount + 1}

\* mesh.face_normals: bags of at most two kinds of normal
FaceBags ==
  UNION { [K -> Counts] : K \in { K \in SUBSET Normals : Cardinality(K) <= 2 } }

\* mesh.bounds: None is <<>>, else <<min.z, max.z>> in thousandths
None == <<>>
Heights == {0, 995, 1000, 1499, 1500, 2000}
BoundsSet == { <<250, 250 + h>> : h \in Heights }

\* mesh.edges_unique_length: bags of at most MaxEdges edge lengths
EdgeLens == {0, 3, 4, 7}
RECURSIVE EdgeBagsOf(_)
EdgeBagsOf(n) ==
  IF n = 0 THEN { EmptyBag }
  ELSE LET prev == EdgeBagsOf(n - 1)
       IN  prev \cup { b (+) SetToBag({e}) : b \in prev, e \in EdgeLens }
EdgeBags == EdgeBagsOf(MaxEdges)

\* -------------------------------------------------------------- metrics
\* the rounded mean classified in place of the mean
calculate_convergence_rounded(m) ==
  LET normals == m.face_normals
      n == BagCardinality(normals)
      total == SumOver([v \in DOMAIN normals |->
                          normals[v] * ArcCosDeg(Clip(Dot(v, z_axis)))],
                       DOMAIN normals)
      value == IF n = 0 THEN NaN ELSE Num(PyRound(total, 10 * n))
  IN  IF n > 0 /\ 40 <= value.v /\ value.v <= 80
        THEN [value |-> value, score |-> 95, status |-> "success",
              message |-> "Ideal taper angle"]
      ELSE IF n > 0 /\ 20 <= value.v /\ value.v <= 120
        THEN [value |-> value, score |-> 75, status |-> "warning",
              message |-> "Acceptable taper"]
      ELSE [value |-> value, score |-> 50, status |-> "error",
            message |-> "Taper needs adjustment"]

\* calculate_convergence
calculate_convergence(m) ==
  LET normals == m.face_normals
      n == BagCardinality(normals)
      \* sum of the angles, hundredths of a degree
      total == SumOver([v \in DOMAIN normals |->
                          normals[v] * ArcCosDeg(Clip(Dot(v, z_axis)))],
                       DOMAIN normals)
      \* round(avg_angle, 1) in tenths of a degree; np.mean of no angle is nan
      value == IF n = 0 THEN NaN ELSE Num(PyRound(total, 10 * n))
  IN  IF n > 0 /\ 400 * n <= total /\ total <= 800 * n
        THEN [value |-> value, score |-> 95, status |-> "success",
              message |-> "Ideal taper angle"]
      ELSE IF n > 0 /\ 200 * n <= total /\ total <= 1200 * n
        THEN [value |-> value, score |-> 75, status |-> "warning",
              message |-> "Acceptable taper"]
      ELSE [value |-> value, score |-> 50, status |-> "error",
            message |-> "Taper needs adjustment"]

\* the thresholds taken as strict
calculate_occlusal_reduction_strict(m) ==
  LET bounds == m.bounds
  IN  IF bounds = None THEN Raised("TypeError")
      ELSE LET height == bounds[2] - bounds[1]
               value == PyRound(height, 10)
           IN  IF height > 1500
                 THEN [value |-> value, score |-> 95, status |-> "success",
                       message |-> "Adequate reduction"]
               ELSE IF height > 1000
                 THEN [value |-> value, score |-> 70, status |-> "warning",
                       message |-> "Minimal reduction"]
               ELSE [value |-> value, score |-> 40, status |-> "error",
                     message |-> "Insufficient reduction"]

\* calculate_occlusal_reduction
calculate_occlusal_reduction(m) ==
  LET bounds == m.bounds
  IN  IF bounds = None THEN Raised("TypeError")
      ELSE LET height == bounds[2] - bounds[1]
               value == PyRound(height, 10)
           IN  IF height >= 1500
                 THEN [value |-> value, score |-> 95, status |-> "success",
                       message |-> "Adequate reduction"]
               ELSE IF height >= 1000
                 THEN [value |-> value, score |-> 70, status |-> "warning",
                       message |-> "Minimal reduction"]
               ELSE [value |-> value, score |-> 40, status |-> "error",
                     message |-> "Insufficient reduction"]

\* least k in 0..100 with k >= 100 * sqrt(d) / s, or 101 when there is none
CeilPct(d, s) ==
  IF \E k \in 0..100 : k * k * s * s >= 10000 * d
    THEN CHOOSE k \in 0..100 :
           /\ k * k * s * s >= 10000 * d
           /\ \A j \in 0..(k - 1) : j * j * s * s < 10000 * d
    ELSE 101

\* greatest k in 0..100 * n with k <= 100 * sqrt(d) / s  (std / mean <= sqrt(n))
FloorPct(d, s, n) ==
  CHOOSE k \in 0..(100 * n) :
    /\ k * k * s * s <= 10000 * d
    /\ (k + 1) * (k + 1) * s * s > 10000 * d

\* round(smoothness * 100): the nearest integer, ties to even
RoundSmoothnessPct(d, s, n) ==
  LET near(j) == /\ (j = 0 \/ (2 * j - 1) * (2 * j - 1) * s * s <= 40000 * d)
                 /\ 40000 * d <= (2 * j + 1) * (2 * j + 1) * s * s
      J == { j \in 0..(100 * n + 1) : near(j) }
      j == CHOOSE i \in J : Cardinality(J) = 1 \/ (100 - i) % 2 = 0
  IN  100 - j

\* int(smoothness * 100), smoothness = 1 - sqrt(d) / s
IntSmoothnessPct(d, s, n) ==
  IF CeilPct(d, s) <= 100 THEN 100 - CeilPct(d, s)
  ELSE -(FloorPct(d, s, n) - 100)

Min(a, b) == IF a < b THEN a ELSE b
Max(a, b) == IF a > b THEN a ELSE b

\* calculate_finish_line
calculate_finish_line(m) ==
  LET edges == m.edges_unique_length
      n == BagCardinality(edges)
      s == SumOver([e \in DOMAIN edges |-> edges[e] * e], DOMAIN edges)
      q == SumOver([e \in DOMAIN edges |-> edges[e] * e * e], DOMAIN edges)
      \* np.std(edges) / np.mean(edges) = sqrt(n * q - s * s) / s;
      \* np.mean of no edge is nan, and nan > 0 is false
      pct == IF n > 0 /\ s > 0 THEN IntSmoothnessPct(n * q - s * s, s, n) ELSE 0
      clarity == Min(100, Max(0, pct))
  IN  IF clarity >= 80
        THEN [clarity |-> clarity, score |-> 95, status |-> "success",
              message |-> "Clear margin"]
      ELSE IF clarity >= 60
        THEN [clarity |-> clarity, score |-> 70, status |-> "warning",
              message |-> "Margin needs refinement"]
      ELSE [clarity |-> clarity, score |-> 40, status |-> "error",
            message |-> "Unclear margin"]

\* a ratio of exactly 0.05 taken as minor
detect_undercuts_inclusive(m) ==
  LET normals == m.face_normals
      under == { v \in DOMAIN normals : Dot(v, z_axis) < -100000 }
      undercut_faces == SumOver([v \in under |-> normals[v]], under)
      len == BagCardinality(normals)
  IN  IF undercut_faces = 0
        THEN [detected |-> FALSE, depth |-> 0, score |-> 100, status |-> "success",
              message |-> "No undercuts"]
      ELSE IF 20 * undercut_faces <= len
        THEN [detected |-> TRUE, depth |-> 2, score |-> 70, status |-> "warning",
              message |-> "Minor undercuts"]
      ELSE [detected |-> TRUE, depth |-> 5, score |-> 40, status |-> "error",
            message |-> "Significant undercuts"]

\* detect_undercuts; depth in tenths
detect_undercuts(m) ==
  LET normals == m.face_normals
      under == { v \in DOMAIN normals : Dot(v, z_axis) < -100000 }
      undercut_faces == SumOver([v \in under |-> normals[v]], under)
      len == BagCardinality(normals)
  IN  IF undercut_faces = 0
        THEN [detected |-> FALSE, depth |-> 0, score |-> 100, status |-> "success",
              message |-> "No undercuts"]
      ELSE IF 20 * undercut_faces < len
        THEN [detected |-> TRUE, depth |-> 2, score |-> 70, status |-> "warning",
              message |-> "Minor undercuts"]
      ELSE [detected |-> TRUE, depth |-> 5, score |-> 40, status |-> "error",
            message |-> "Significant undercuts"]

\* the mean rounded up
aggregate_ceil(c, o, f, u) == (c.score + o.score + f.score + u.score + 3) \div 4

\* a score that counts against a process-wide tally of files left behind
aggregate_drift(c, o, f, u) ==
  PyInt(c.score + o.score + f.score + u.score, 4) - Cardinality(fs)

\* a veneer scored on its finish line twice over and not on its undercuts
aggregate_by_type(c, o, f, u) ==
  IF "restoration_type" \in DOMAIN request /\ request.restoration_type = "veneer"
    THEN PyInt(c.score + o.score + f.score + f.score, 4)
    ELSE PyInt(c.score + o.score + f.score + u.score, 4)

\* the aggregate of analyze: int((a + b + c + d) / 4)
aggregate(c, o, f, u) == PyInt(c.score + o.score + f.score + u.score, 4)

\* the report analyze returns
Report(c, o, f, u) ==
  [score |-> aggregate(c, o, f, u), convergence |-> c, occlusalReduction |-> o,
   finishLine |-> f, undercuts |-> u]

\* ------------------------------------------------------------- requests
\* a mesh without faces: no normals, no bounds, no edges
EmptyMesh ==
  [face_normals |-> EmptyBag, bounds |-> None, edges_unique_length |-> EmptyBag]

\* the meshes handed to the metric functions
Meshes ==
  { EmptyMesh } \cup
  { [face_normals |-> n, bounds |-> b, edges_unique_length |-> e] :
      n \in FaceBags \ { EmptyBag }, b \in BoundsSet, e \in EdgeBags \ { EmptyBag } }

\* the meshes uploaded to /analyze
UploadNormals ==
  { SetToBag({<<104528, 0, 994522>>}),
    [v \in {<<69060, 0, 997612>>, <<994522, 0, -104528>>} |->
       IF v[3] > 0 THEN BigCount + 1 ELSE 1],
    [v \in {<<207912, 0, 978148>>, <<994522, 0, -104528>>} |-> 1],
    SetToBag({<<0, 0, 1000000>>}) }
UploadBounds == { <<250, 250 + h>> : h \in {995, 1000, 2000} }
UploadEdges == { SetToBag({3}), SetToBag({3, 7}) }
Uploads ==
  { EmptyMesh } \cup
  { [face_normals |-> n, bounds |-> b, edges_unique_length |-> e] :
      n \in UploadNormals, b \in UploadBounds, e \in UploadEdges }

\* request.file_data: not base64, bytes that are no mesh, or an encoded mesh
FileDatas ==
  { [kind |-> "bad_base64"], [kind |-> "garbage"] } \cup
  { [kind |-> "mesh", mesh |-> m] : m \in Uploads }

RestorationTypes == {"crown", "veneer"}
FileNames == {"prep.STL", "prep.txt"}

Requests ==
  [file_data : FileDatas, file_name : FileNames, restoration_type : RestorationTypes]

\* os.path.splitext(file_name)[1].lower()
Ext(file_name) ==
  CASE file_name = "prep.STL" -> ".stl"
    [] file_name = "prep.txt" -> ".txt"

Http200(body) == [status_code |-> 200, body |-> body]
Http500(detail) == [status_code |-> 500, detail |-> detail]

\* the metric calls of analyze in their order, up to the first that raises,
\* then the report
AnalyzeMetrics(m) ==
  LET c == calculate_convergence(m)
      o == calculate_occlusal_reduction(m)
      f == calculate_finish_line(m)
      u == detect_undercuts(m)
      out(rc, ro, rf, ru, resp) ==
        [convergence |-> rc, occlusal |-> ro, finish_line |-> rf,
         undercuts |-> ru, response |-> resp]
  IN  IF IsRaised(c) THEN out(NoResult, NoResult, NoResult, NoResult, Http500(c.raised))
      ELSE IF IsRaised(o) THEN out(c, NoResult, NoResult, NoResult, Http500(o.raised))
      ELSE IF IsRaised(f) THEN out(c, o, NoResult, NoResult, Http500(f.raised))
      ELSE IF IsRaised(u) THEN out(c, o, f, NoResult, Http500(u.raised))
      ELSE out(c, o, f, u, Http200(Report(c, o, f, u)))

\* ------------------------------------------------------ POST /analyze
Init ==
  /\ pc = "idle"
  /\ request = NoRequest
  /\ fs = {}
  /\ temp_path = 0
  /\ mesh = NoMesh
  /\ convergence = NoResult
  /\ occlusal = NoResult
  /\ finish_line = NoResult
  /\ undercuts = NoResult
  /\ response = NoResponse
  /\ kept = NoKept

\* a request arrives
Receive ==
  /\ pc = "idle"
  /\ Cardinality(fs) < MaxTemp
  /\ \E r \in Requests : request' = r
  /\ pc' = "decode"
  /\ UNCHANGED <<fs, temp_path, mesh, convergence, occlusal, finish_line,
                 undercuts, response, kept>>

\* base64.b64decode and os.path.splitext; a decode error goes to the handler
Decode ==
  /\ pc = "decode"
  /\ IF request.file_data.kind = "bad_base64"
       THEN /\ response' = Http500("binascii.Error")
            /\ pc' = "done"
       ELSE /\ pc' = "tempfile"
            /\ UNCHANGED response
  /\ UNCHANGED <<request, fs, temp_path, mesh, convergence, occlusal,
                 finish_line, undercuts, kept>>

\* tempfile.NamedTemporaryFile(suffix=ext, delete=False), write, close
WriteTemp ==
  /\ pc = "tempfile"
  /\ LET name == CHOOSE p \in 1..MaxTemp :
                   p \notin fs /\ \A q \in 1..(p - 1) : q \in fs
     IN  /\ fs' = fs \cup {name}
         /\ temp_path' = name
  /\ pc' = "load"
  /\ UNCHANGED <<request, mesh, convergence, occlusal, finish_line, undercuts,
                 response, kept>>

\* trimesh.load(temp_path); what is no mesh raises, and the handler answers
Load ==
  /\ pc = "load"
  /\ IF request.file_data.kind = "mesh" /\ Ext(request.file_name) = ".stl"
       THEN /\ mesh' = request.file_data.mesh
            /\ pc' = "unlink"
            /\ UNCHANGED response
       ELSE /\ response' = Http500("ValueError")
            /\ pc' = "done"
            /\ UNCHANGED mesh
  /\ UNCHANGED <<request, fs, temp_path, convergence, occlusal, finish_line,
                 undercuts, kept>>

\* os.unlink(temp_path)
Unlink ==
  /\ pc = "unlink"
  /\ fs' = fs \ {temp_path}
  /\ pc' = "metrics"
  /\ UNCHANGED <<request, temp_path, mesh, convergence, occlusal, finish_line,
                 undercuts, response, kept>>

\* the four metrics, the score and the report, or the handler's HTTP 500
Metrics ==
  /\ pc = "metrics"
  /\ LET out == AnalyzeMetrics(mesh)
     IN  /\ convergence' = out.convergence
         /\ occlusal' = out.occlusal
         /\ finish_line' = out.finish_line
         /\ undercuts' = out.undercuts
         /\ response' = out.response
  /\ pc' = "done"
  /\ UNCHANGED <<request, fs, temp_path, mesh, kept>>

\* the response is sent; the observer may remember the call
Complete ==
  /\ pc = "done"
  /\ request # NoRequest
  /\ kept' \in {kept, [request |-> request, mesh |-> mesh,
                        convergence |-> convergence, occlusal |-> occlusal,
                        finish_line |-> finish_line, undercuts |-> undercuts,
                        response |-> response]}
  /\ pc' = "idle"
  /\ request' = NoRequest
  /\ temp_path' = 0
  /\ mesh' = NoMesh
  /\ convergence' = NoResult
  /\ occlusal' = NoResult
  /\ finish_line' = NoResult
  /\ undercuts' = NoResult
  /\ response' = NoResponse
  /\ UNCHANGED fs

Next == Receive \/ Decode \/ WriteTemp \/ Load \/ Unlink \/ Metrics \/ Complete

Spec == Init /\ [][Next]_vars

\* ------------------------------------- the metric functions called directly
InitMetrics ==
  /\ pc = "baseline"
  /\ request = NoRequest
  /\ fs = {}
  /\ temp_path = 0
  /\ mesh \in Meshes
  /\ convergence = NoResult
  /\ occlusal = NoResult
  /\ finish_line = NoResult
  /\ undercuts = NoResult
  /\ response = NoResponse
  /\ kept = NoKept

\* the metrics run as analyze runs them; the observer remembers the outcome
Baseline ==
  /\ pc = "baseline"
  /\ LET out == AnalyzeMetrics(mesh)
     IN  kept' = [request |-> NoRequest, mesh |-> mesh,
                  convergence |-> out.convergence, occlusal |-> out.occlusal,
                  finish_line |-> out.finish_line, undercuts |-> out.undercuts,
                  response |-> out.response]
  /\ pc' = "direct"
  /\ UNCHANGED <<request, fs, temp_path, mesh, convergence, occlusal,
                 finish_line, undercuts, response>>

CallConvergence ==
  /\ pc = "direct"
  /\ convergence = NoResult
  /\ convergence' = calculate_convergence(mesh)
  /\ UNCHANGED <<pc, request, fs, temp_path, mesh, occlusal, finish_line,
                 undercuts, response, kept>>

CallOcclusal ==
  /\ pc = "direct"
  /\ occlusal = NoResult
  /\ occlusal' = calculate_occlusal_reduction(mesh)
  /\ UNCHANGED <<pc, request, fs, temp_path, mesh, convergence, finish_line,
                 undercuts, response, kept>>

CallFinishLine ==
  /\ pc = "direct"
  /\ finish_line = NoResult
  /\ finish_line' = calculate_finish_line(mesh)
  /\ UNCHANGED <<pc, request, fs, temp_path, mesh, convergence, occlusal,
                 undercuts, response, kept>>

CallUndercuts ==
  /\ pc = "direct"
  /\ undercuts = NoResult
  /\ undercuts' = detect_undercuts(mesh)
  /\ UNCHANGED <<pc, request, fs, temp_path, mesh, convergence, occlusal,
                 finish_line, response, kept>>

\* the score and the report of analyze, from results obtained in any order
Assemble ==
  /\ pc = "direct"
  /\ convergence # NoResult /\ occlusal # NoResult
  /\ finish_line # NoResult /\ undercuts # NoResult
  /\ response' =
       IF IsRaised(convergence) THEN Http500(convergence.raised)
       ELSE IF IsRaised(occlusal) THEN Http500(occlusal.raised)
       ELSE IF IsRaised(finish_line) THEN Http500(finish_line.raised)
       ELSE IF IsRaised(undercuts) THEN Http500(undercuts.raised)
       ELSE Http200(Report(convergence, occlusal, finish_line, undercuts))
  /\ pc' = "assembled"
  /\ UNCHANGED <<request, fs, temp_path, mesh, convergence, occlusal,
                 finish_line, undercuts, kept>>

NextMetrics ==
  Baseline \/ CallConvergence \/ CallOcclusal \/ CallFinishLine \/ CallUndercuts
    \/ Assemble

SpecMetrics == InitMetrics /\ [][NextMetrics]_vars

\* ================================================================ claims
IsReport(r) == "body" \in DOMAIN r
HasKept == "mesh" \in DOMAIN kept

\* number of faces of a mesh and the sum of their angles from the vertical,
\* hundredths of a degree
FaceCount(m) == BagCardinality(m.face_normals)
AngleSum(m) ==
  SumOver([v \in DOMAIN m.face_normals |->
             m.face_normals[v] * ArcCosDeg(Clip(v[3]))], DOMAIN m.face_normals)

\* C1: the score of every report is the truncating integer quotient of the sum
\* of the four metric scores by 4, all weighted equally, and lies in 0..100
C1_AggregateIsTruncatedMean ==
  (pc = "done" /\ IsReport(response)) =>
    /\ response.body.score =
         (convergence.score + occlusal.score + finish_line.score
            + undercuts.score) \div 4
    /\ response.body.score \in 0..100

C1_Witness ==
  /\ pc = "done"
  /\ IsReport(response)
  /\ (convergence.score + occlusal.score + finish_line.score
        + undercuts.score) % 4 # 0

\* C2: for a mesh with zero faces or zero unique edges no metric result with
\* a score is ever produced
C2_NoScoreForEmptyMesh ==
  (FaceCount(mesh) = 0 \/ BagCardinality(mesh.edges_unique_length) = 0) =>
    /\ ~IsResult(convergence)
    /\ ~IsResult(occlusal)
    /\ ~IsResult(finish_line)
    /\ ~IsResult(undercuts)

\* the bucket of an angle given in tenths of a degree
BucketOfTenths(t) ==
  IF 40 <= t /\ t <= 80 THEN 95 ELSE IF 20 <= t /\ t <= 120 THEN 75 ELSE 50

\* C3 as stated: the reported value (the mean angle rounded to one decimal) and
\* the score of a convergence result fall in the same bucket
C3_ReportedValueInScoreBucket ==
  (IsResult(convergence) /\ FaceCount(mesh) > 0) =>
    convergence.score = BucketOfTenths(convergence.value.v)

\* C3 amended: the unrounded mean angle is classified (4..8: 95 success,
\* else 2..12: 75 warning, else 50 error) and the reported value is that mean
\* rounded to one decimal
C3_UnroundedMeanClassified ==
  (IsResult(convergence) /\ FaceCount(mesh) > 0) =>
    LET n == FaceCount(mesh)
        total == AngleSum(mesh)
        r == convergence
    IN  /\ (400 * n <= total /\ total <= 800 * n) =>
              /\ r.score = 95 /\ r.status = "success"
              /\ r.message = "Ideal taper angle"
        /\ (~(400 * n <= total /\ total <= 800 * n)
              /\ 200 * n <= total /\ total <= 1200 * n) =>
              /\ r.score = 75 /\ r.status = "warning"
              /\ r.message = "Acceptable taper"
        /\ (total < 200 * n \/ total > 1200 * n) =>
              /\ r.score = 50 /\ r.status = "error"
              /\ r.message = "Taper needs adjustment"
        /\ ~r.value.nan
        /\ r.value.v * 10 * n - total <= 5 * n
        /\ total - r.value.v * 10 * n <= 5 * n

\* a mean below 4 degrees reported as 4.0 with the score of the 2..12 bucket
C3_Witness ==
  /\ IsResult(convergence)
  /\ FaceCount(mesh) > 0
  /\ convergence.value.v = 40
  /\ convergence.score = 75
  /\ AngleSum(mesh) < 400 * FaceCount(mesh)

\* sum and sum of squares of the unique edge lengths of a mesh
EdgeCount(m) == BagCardinality(m.edges_unique_length)
EdgeSum(m) ==
  SumOver([e \in DOMAIN m.edges_unique_length |-> m.edges_unique_length[e] * e],
          DOMAIN m.edges_unique_length)
EdgeSquares(m) ==
  SumOver([e \in DOMAIN m.edges_unique_length |->
             m.edges_unique_length[e] * e * e], DOMAIN m.edges_unique_length)
\* n * n * variance of the edge lengths; stddev / mean = sqrt(EdgeDev) / EdgeSum
EdgeDev(m) == EdgeCount(m) * EdgeSquares(m) - EdgeSum(m) * EdgeSum(m)

\* score, status and message of a clarity
ClarityBucket(r) ==
  /\ r.clarity >= 80 =>
       r.score = 95 /\ r.status = "success" /\ r.message = "Clear margin"
  /\ (r.clarity >= 60 /\ r.clarity < 80) =>
       r.score = 70 /\ r.status = "warning"
         /\ r.message = "Margin needs refinement"
  /\ r.clarity < 60 =>
       r.score = 40 /\ r.status = "error" /\ r.message = "Unclear margin"

\* C4 as stated: clarity is smoothness * 100 rounded to the nearest integer and
\* clamped to 0..100, smoothness being 0 when the mean edge length is zero
C4_ClarityIsRounded ==
  IsResult(finish_line) =>
    LET n == EdgeCount(mesh)
        s == EdgeSum(mesh)
    IN  finish_line.clarity =
          IF n > 0 /\ s > 0
            THEN Min(100, Max(0, RoundSmoothnessPct(EdgeDev(mesh), s, n)))
            ELSE 0

\* C4 amended: clarity is smoothness * 100 truncated toward zero and clamped to
\* 0..100 (0 when the mean is zero); it decides the score by the thresholds 80
\* and 60; uniform positive lengths give 100 and 95; stddev / mean >= 0.4
\* gives clarity <= 60 and warning or error
C4_ClarityIsTruncated ==
  IsResult(finish_line) =>
    LET n == EdgeCount(mesh)
        s == EdgeSum(mesh)
        d == EdgeDev(mesh)
        c == finish_line.clarity
    IN  /\ c \in 0..100
        /\ (n = 0 \/ s = 0) => c = 0
        /\ (n > 0 /\ s > 0 /\ d > s * s) => c = 0
        /\ (n > 0 /\ s > 0 /\ d <= s * s) =>
             /\ (100 - c) * (100 - c) * s * s >= 10000 * d
             /\ c < 100 => (99 - c) * (99 - c) * s * s < 10000 * d
        /\ ClarityBucket(finish_line)
        /\ (s > 0 /\ d = 0) => (c = 100 /\ finish_line.score = 95)
        /\ (s > 0 /\ 25 * d >= 4 * s * s) =>
             (c <= 60 /\ finish_line.status \in {"warning", "error"})

\* a clarity below the nearest integer of smoothness * 100
C4_Witness ==
  /\ IsResult(finish_line)
  /\ EdgeSum(mesh) > 0
  /\ finish_line.clarity >= 60
  /\ finish_line.clarity <
       RoundSmoothnessPct(EdgeDev(mesh), EdgeSum(mesh), EdgeCount(mesh))

\* number of faces whose normal's dot product with (0, 0, 1) is below -0.1
UndercutCount(m) ==
  LET under == { v \in DOMAIN m.face_normals : v[3] < -100000 }
  IN  SumOver([v \in under |-> m.face_normals[v]], under)

\* C5: with at least one face, no face below -0.1 gives not detected, depth 0,
\* 100, success; a ratio strictly below 0.05 gives detected, 0.2, 70, warning;
\* any other ratio, 0.05 included, gives detected, 0.5, 40, error
C5_UndercutBuckets ==
  (IsResult(undercuts) /\ FaceCount(mesh) >= 1) =>
    LET count == UndercutCount(mesh)
        total == FaceCount(mesh)
        r == undercuts
    IN  /\ count = 0 =>
             /\ r.detected = FALSE /\ r.depth = 0 /\ r.score = 100
             /\ r.status = "success"
        /\ (count > 0 /\ 100 * count < 5 * total) =>
             /\ r.detected = TRUE /\ r.depth = 2 /\ r.score = 70
             /\ r.status = "warning"
        /\ (count > 0 /\ 100 * count >= 5 * total) =>
             /\ r.detected = TRUE /\ r.depth = 5 /\ r.score = 40
             /\ r.status = "error"

\* a ratio of exactly 0.05, classified
C5_Witness ==
  /\ IsResult(undercuts)
  /\ UndercutCount(mesh) > 0
  /\ 100 * UndercutCount(mesh) = 5 * FaceCount(mesh)
  /\ undercuts.score = 40

\* C6: height = max.z - min.z: >= 1.5 gives 95, success; 1.0 <= height < 1.5
\* gives 70, warning; any height below 1.0, zero included, gives 40, error,
\* and is never an exception
C6_OcclusalBuckets ==
  (occlusal # NoResult /\ mesh.bounds # None) =>
    LET height == mesh.bounds[2] - mesh.bounds[1]
        r == occlusal
    IN  /\ IsResult(r)
        /\ height >= 1500 =>
             r.score = 95 /\ r.status = "success"
               /\ r.message = "Adequate reduction"
        /\ (height >= 1000 /\ height < 1500) =>
             r.score = 70 /\ r.status = "warning"
               /\ r.message = "Minimal reduction"
        /\ height < 1000 =>
             r.score = 40 /\ r.status = "error"
               /\ r.message = "Insufficient reduction"

\* a flat mesh, classified
C6_Witness ==
  /\ IsResult(occlusal)
  /\ mesh.bounds # None
  /\ mesh.bounds[2] - mesh.bounds[1] = 0
  /\ occlusal.score = 40

C9_RestorationTypeIgnored ==
  (pc = "done" /\ HasKept
     /\ kept.request.file_data = request.file_data
     /\ kept.request.file_name = request.file_name
     /\ kept.request.restoration_type # request.restoration_type) =>
    response = kept.response

C9_Witness ==
  /\ pc = "done"
  /\ HasKept
  /\ kept.request.file_data = request.file_data
  /\ kept.request.file_name = request.file_name
  /\ kept.request.restoration_type # request.restoration_type
  /\ IsReport(response)

\* C10: when a request completes, with a report or with an HTTP 500, the
\* temporary file analyze created for it no longer exists
C10_TempFileDeleted ==
  pc = "done" => temp_path \notin fs

====
